---- MODULE Spec2Model ----
(***************************************************************************)
(* A model of webhook-host (src/main.go): the in-memory capture log        *)
(* (requests, mu, nextID) and the three HTTP handlers that use it, each    *)
(* handler goroutine stepping through its code one statement at a time.    *)
(***************************************************************************)
EXTENDS Integers, Sequences, FiniteSets, TLC

\* ------------------------------------------------------------- bounds
\* Number of webhook requests admitted over a run (caps nextID and the clock).
MaxInserts == 3
\* The capacity of the log: 100 in main.go:82-83, scaled down for checking.
CAP == 2

\* The goroutines serving requests at the same time: three, so that two
\* writers race while a reader holds the lock, and a reader arrives behind a
\* pending writer.
Handlers == 1..3
NoHandler == 0

\* The requests a client may send: <<path, method>>.
Inbound ==
    { <<"/hook", "POST">>,
      <<"/api/requests", "GET">>,
      <<"/api/clear", "POST">>,
      <<"/api/clear", "GET">> }

NoReq == [URL |-> "", Method |-> ""]

\* type RequestInfo (Headers, Body and RemoteAddr are copied like Method
\* and URL and are left out).
NoInfo == [ID |-> 0, Method |-> "", URL |-> "", Timestamp |-> 0]

StatusNone == 0
StatusOK == 200
StatusMethodNotAllowed == 405
StatusInternalServerError == 500

VARIABLES
    requests,   \* var requests []RequestInfo
    nextID,     \* var nextID = 1
    mu,         \* var mu sync.RWMutex
    clock,      \* the wall clock read by time.Now()
    pc,         \* where each handler goroutine stands
    req,        \* the *http.Request each goroutine serves
    info,       \* webhookHandler's local info
    snap,       \* the bytes json.Encoder marshalled in getRequestsHandler
    resp,       \* the status written to each http.ResponseWriter
    inserted,   \* history: the records given an id at main.go:77, in order
    completed,  \* history: webhookHandler critical sections left (main.go:85)
    sinceClear, \* history: those left since the last clear critical section
    cleared,    \* history: has a clear critical section been left
    committed   \* history: requests as the last writer left it at Unlock

vars ==
    << requests, nextID, mu, clock, pc, req, info, snap, resp,
       inserted, completed, sinceClear, cleared, committed >>

hist == << inserted, completed, sinceClear, cleared, committed >>

Min(a, b) == IF a < b THEN a ELSE b

\* ------------------------------------------------------------- sync.RWMutex
\* writer: the goroutine that holds rw.w (a pending or an active writer);
\* readers: the goroutines holding a read lock; rwait: those blocked in RLock.
MuFree == [writer |-> NoHandler, readers |-> {}, rwait |-> {}]

\* A lock that lets a second writer in while the first holds rw.w.
CanLockAcquireAlways(m) == TRUE

\* Lock, first half: rw.w.Lock() admits one writer and announces it.
CanLockAcquire(m) == m.writer = NoHandler
LockAcquire(m, h) == [m EXCEPT !.writer = h]

\* A writer that does not wait for the readers to leave.
CanLockEnterAlways(m, h) == m.writer = h

\* Lock, second half: the writer waits until the active readers have left.
CanLockEnter(m, h) == m.writer = h /\ m.readers = {}

\* Unlock: the readers blocked behind the writer are admitted together.
Unlock(m) ==
    [writer |-> NoHandler, readers |-> m.readers \cup m.rwait, rwait |-> {}]

\* A read lock that ignores writers.
RLockAdmitsAlways(m) == TRUE

\* RLock: a reader is admitted unless a writer is pending or active.
RLockAdmits(m) == m.writer = NoHandler

\* A handler that returns without giving the read lock back.
RUnlockForgotten(m, h) == m

\* RUnlock: the reader leaves.
RUnlock(m, h) == [m EXCEPT !.readers = @ \ {h}]

\* ------------------------------------------------------------- the log
\* The record appended at the end instead of the front.
PrependAtEnd(i, s) == Append(s, i)

\* A prepend through a shared record: the records already stored take the
\* new record's timestamp.
PrependRestamps(i, s) ==
    <<i>> \o [k \in DOMAIN s |-> [s[k] EXCEPT !.Timestamp = i.Timestamp]]

\* An insert that keeps the sequence sorted by timestamp, newest first.
PrependByTimestamp(i, s) ==
    SelectSeq(s, LAMBDA r : r.Timestamp > i.Timestamp)
        \o <<i>> \o SelectSeq(s, LAMBDA r : r.Timestamp < i.Timestamp)

\* main.go:80  requests = append([]RequestInfo{info}, requests...)
Prepend(i, s) == <<i>> \o s

\* A cut one record too short.
TruncateOffByOne(s) == IF Len(s) > CAP THEN SubSeq(s, 1, CAP - 1) ELSE s

\* A cut that keeps the last CAP records, requests[len-100:].
TruncateOldest(s) ==
    IF Len(s) > CAP THEN SubSeq(s, Len(s) - CAP + 1, Len(s)) ELSE s

\* main.go:82-84  if len(requests) > 100 { requests = requests[:100] }
Truncate(s) == IF Len(s) > CAP THEN SubSeq(s, 1, CAP) ELSE s

\* The counter left where it was.
IncrementStuck(n) == n

\* The counter advanced twice.
IncrementTwice(n) == n + 2

\* main.go:78  nextID++
Increment(n) == n + 1

\* A clear that has no effect on the shared slice.
ClearedKeepsAll(s) == s

\* main.go:104  requests = []RequestInfo{}
Cleared(s) == << >>

\* ------------------------------------------------------------- control
WebhookPending == {"w_read", "w_lock", "w_drain"}
WebhookCS == {"w_id", "w_inc", "w_prepend", "w_trunc", "w_unlock"}
ClearCS == {"c_assign", "c_unlock"}

InWriterCS(h) == pc[h] \in WebhookCS \cup ClearCS

\* h holds mu, as the writer past Lock or as a reader past RLock.
HoldsLock(h) == InWriterCS(h) \/ h \in mu.readers

\* h is reading from or writing to its connection: io.ReadAll (main.go:55),
\* Encode's write (main.go:95), the response writes (main.go:87-88, 106).
DoingIO(h) == pc[h] \in {"w_read", "g_write", "w_respond", "c_respond"}

\* Webhook requests admitted so far: ids given out plus those on their way.
Admitted ==
    (nextID - 1)
    + Cardinality({h \in Handlers : pc[h] \in WebhookPending \cup {"w_id", "w_inc"}})

Goto(h, l) == pc' = [pc EXCEPT ![h] = l]

Init ==
    /\ requests = << >>
    /\ nextID = 1
    /\ mu = MuFree
    /\ clock = 1
    /\ pc = [h \in Handlers |-> "idle"]
    /\ req = [h \in Handlers |-> NoReq]
    /\ info = [h \in Handlers |-> NoInfo]
    /\ snap = [h \in Handlers |-> << >>]
    /\ resp = [h \in Handlers |-> StatusNone]
    /\ inserted = << >>
    /\ completed = 0
    /\ sinceClear = 0
    /\ cleared = FALSE
    /\ committed = << >>

\* A mux with the catch-all pattern only: every path goes to webhookHandler.
RouteCatchAll(path) == "w_read"

\* main.go:36-42: http.ServeMux routes the request to its handler.
Route(path) ==
    CASE path = "/api/requests" -> "g_rlock"
      [] path = "/api/clear" -> "c_check"
      [] OTHER -> "w_read"

ServeMux(h) ==
    /\ pc[h] = "idle"
    /\ \E r \in Inbound :
        /\ Route(r[1]) = "w_read" => Admitted < MaxInserts
        /\ req' = [req EXCEPT ![h] = [URL |-> r[1], Method |-> r[2]]]
        /\ Goto(h, Route(r[1]))
    /\ UNCHANGED << requests, nextID, mu, clock, info, snap, resp, hist >>

\* ------------------------------------------------------------- webhookHandler
\* A body-read error answered 500 without the return that follows it.
WebhookReadRequestNoReturn(h) ==
    /\ pc[h] = "w_read"
    /\ \E ok \in BOOLEAN :
        /\ resp' = [resp EXCEPT ![h] =
                      IF ok THEN resp[h] ELSE StatusInternalServerError]
        /\ info' = [info EXCEPT ![h] =
                      [ID |-> 0, Method |-> req[h].Method,
                       URL |-> req[h].URL, Timestamp |-> clock]]
        /\ clock' = clock + 1
        /\ Goto(h, "w_lock")
    /\ UNCHANGED << requests, nextID, mu, req, snap, hist >>

\* main.go:55-74: io.ReadAll(r.Body); on an error answer 500 and return;
\* otherwise build info from the request, Timestamp: time.Now().
WebhookReadRequest(h) ==
    /\ pc[h] = "w_read"
    /\ \E ok \in BOOLEAN :
        IF ok
        THEN /\ info' = [info EXCEPT ![h] =
                          [ID |-> 0, Method |-> req[h].Method,
                           URL |-> req[h].URL, Timestamp |-> clock]]
             /\ clock' = clock + 1
             /\ Goto(h, "w_lock")
             /\ UNCHANGED resp
        ELSE /\ resp' = [resp EXCEPT ![h] = StatusInternalServerError]
             /\ Goto(h, "returned")
             /\ UNCHANGED << info, clock >>
    /\ UNCHANGED << requests, nextID, mu, req, snap, hist >>

\* main.go:76: mu.Lock(), the writer takes rw.w.
WebhookLock(h) ==
    /\ pc[h] = "w_lock"
    /\ CanLockAcquire(mu)
    /\ mu' = LockAcquire(mu, h)
    /\ Goto(h, "w_drain")
    /\ UNCHANGED << requests, nextID, clock, req, info, snap, resp, hist >>

\* main.go:76: mu.Lock() returns once no reader is left.
WebhookLockEnter(h) ==
    /\ pc[h] = "w_drain"
    /\ CanLockEnter(mu, h)
    /\ Goto(h, "w_id")
    /\ UNCHANGED << requests, nextID, mu, clock, req, info, snap, resp, hist >>

\* main.go:77: info.ID = nextID
WebhookAssignID(h) ==
    /\ pc[h] = "w_id"
    /\ info' = [info EXCEPT ![h].ID = nextID]
    /\ inserted' = Append(inserted, info'[h])
    /\ Goto(h, "w_inc")
    /\ UNCHANGED << requests, nextID, mu, clock, req, snap, resp,
                    completed, sinceClear, cleared, committed >>

\* main.go:78: nextID++
WebhookIncrement(h) ==
    /\ pc[h] = "w_inc"
    /\ nextID' = Increment(nextID)
    /\ Goto(h, "w_prepend")
    /\ UNCHANGED << requests, mu, clock, req, info, snap, resp, hist >>

\* main.go:80: prepend info to requests.
WebhookPrepend(h) ==
    /\ pc[h] = "w_prepend"
    /\ requests' = Prepend(info[h], requests)
    /\ Goto(h, "w_trunc")
    /\ UNCHANGED << nextID, mu, clock, req, info, snap, resp, hist >>

\* main.go:82-84: keep only the first CAP requests.
WebhookTruncate(h) ==
    /\ pc[h] = "w_trunc"
    /\ requests' = Truncate(requests)
    /\ Goto(h, "w_unlock")
    /\ UNCHANGED << nextID, mu, clock, req, info, snap, resp, hist >>

\* main.go:85: mu.Unlock()
WebhookUnlock(h) ==
    /\ pc[h] = "w_unlock"
    /\ mu' = Unlock(mu)
    /\ pc' = [g \in Handlers |->
                IF g = h THEN "w_respond"
                ELSE IF g \in mu.rwait THEN "g_encode" ELSE pc[g]]
    /\ completed' = completed + 1
    /\ sinceClear' = sinceClear + 1
    /\ committed' = requests
    /\ UNCHANGED << requests, nextID, clock, req, info, snap, resp,
                    inserted, cleared >>

\* main.go:87-88: w.WriteHeader(http.StatusOK); "Webhook received".
WebhookRespond(h) ==
    /\ pc[h] = "w_respond"
    /\ resp' = [resp EXCEPT ![h] = StatusOK]
    /\ Goto(h, "returned")
    /\ UNCHANGED << requests, nextID, mu, clock, req, info, snap, hist >>

\* ------------------------------------------------------------- getRequestsHandler
\* main.go:92-93: set the Content-Type header; mu.RLock().
GetRLock(h) ==
    /\ pc[h] = "g_rlock"
    /\ IF RLockAdmits(mu)
       THEN /\ mu' = [mu EXCEPT !.readers = @ \cup {h}]
            /\ Goto(h, "g_encode")
       ELSE /\ mu' = [mu EXCEPT !.rwait = @ \cup {h}]
            /\ Goto(h, "g_rwait")
    /\ UNCHANGED << requests, nextID, clock, req, info, snap, resp, hist >>

\* main.go:95: Encode marshals requests into its buffer ...
GetEncode(h) ==
    /\ pc[h] = "g_encode"
    /\ snap' = [snap EXCEPT ![h] = requests]
    /\ Goto(h, "g_write")
    /\ UNCHANGED << requests, nextID, mu, clock, req, info, resp, hist >>

\* main.go:95: ... writes the buffer to the ResponseWriter and releases it.
GetWrite(h) ==
    /\ pc[h] = "g_write"
    /\ resp' = [resp EXCEPT ![h] = StatusOK]
    /\ snap' = [snap EXCEPT ![h] = << >>]
    /\ Goto(h, "g_runlock")
    /\ UNCHANGED << requests, nextID, mu, clock, req, info, hist >>

\* main.go:94: the deferred mu.RUnlock() runs as the handler returns.
GetRUnlock(h) ==
    /\ pc[h] = "g_runlock"
    /\ mu' = RUnlock(mu, h)
    /\ Goto(h, "returned")
    /\ UNCHANGED << requests, nextID, clock, req, info, snap, resp, hist >>

\* ------------------------------------------------------------- clearRequestsHandler
\* A clear handler without the method check.
ClearCheckMethodAny(h) ==
    /\ pc[h] = "c_check"
    /\ Goto(h, "c_lock")
    /\ UNCHANGED << requests, nextID, mu, clock, req, info, snap, resp, hist >>

\* main.go:99-102: any method but POST is answered 405.
ClearCheckMethod(h) ==
    /\ pc[h] = "c_check"
    /\ IF req[h].Method # "POST"
       THEN /\ resp' = [resp EXCEPT ![h] = StatusMethodNotAllowed]
            /\ Goto(h, "returned")
       ELSE /\ Goto(h, "c_lock")
            /\ UNCHANGED resp
    /\ UNCHANGED << requests, nextID, mu, clock, req, info, snap, hist >>

\* main.go:103: mu.Lock(), the writer takes rw.w.
ClearLock(h) ==
    /\ pc[h] = "c_lock"
    /\ CanLockAcquire(mu)
    /\ mu' = LockAcquire(mu, h)
    /\ Goto(h, "c_drain")
    /\ UNCHANGED << requests, nextID, clock, req, info, snap, resp, hist >>

\* main.go:103: mu.Lock() returns once no reader is left.
ClearLockEnter(h) ==
    /\ pc[h] = "c_drain"
    /\ CanLockEnter(mu, h)
    /\ Goto(h, "c_assign")
    /\ UNCHANGED << requests, nextID, mu, clock, req, info, snap, resp, hist >>

\* A clear that also restarts the id counter.
ClearAssignResetsCounter(h) ==
    /\ pc[h] = "c_assign"
    /\ requests' = << >>
    /\ nextID' = 1
    /\ Goto(h, "c_unlock")
    /\ UNCHANGED << mu, clock, req, info, snap, resp, hist >>

\* main.go:104: requests = []RequestInfo{}
ClearAssign(h) ==
    /\ pc[h] = "c_assign"
    /\ requests' = Cleared(requests)
    /\ Goto(h, "c_unlock")
    /\ UNCHANGED << nextID, mu, clock, req, info, snap, resp, hist >>

\* main.go:105: mu.Unlock()
ClearUnlock(h) ==
    /\ pc[h] = "c_unlock"
    /\ mu' = Unlock(mu)
    /\ pc' = [g \in Handlers |->
                IF g = h THEN "c_respond"
                ELSE IF g \in mu.rwait THEN "g_encode" ELSE pc[g]]
    /\ sinceClear' = 0
    /\ cleared' = TRUE
    /\ committed' = requests
    /\ UNCHANGED << requests, nextID, clock, req, info, snap, resp,
                    inserted, completed >>

\* main.go:106: w.WriteHeader(http.StatusOK)
ClearRespond(h) ==
    /\ pc[h] = "c_respond"
    /\ resp' = [resp EXCEPT ![h] = StatusOK]
    /\ Goto(h, "returned")
    /\ UNCHANGED << requests, nextID, mu, clock, req, info, snap, hist >>

\* net/http: the handler has returned; the goroutine serves the next request.
Return(h) ==
    /\ pc[h] = "returned"
    /\ Goto(h, "idle")
    /\ req' = [req EXCEPT ![h] = NoReq]
    /\ info' = [info EXCEPT ![h] = NoInfo]
    /\ snap' = [snap EXCEPT ![h] = << >>]
    /\ resp' = [resp EXCEPT ![h] = StatusNone]
    /\ UNCHANGED << requests, nextID, mu, clock, hist >>

Next ==
    \E h \in Handlers :
        \/ ServeMux(h)
        \/ WebhookReadRequest(h)
        \/ WebhookLock(h)
        \/ WebhookLockEnter(h)
        \/ WebhookAssignID(h)
        \/ WebhookIncrement(h)
        \/ WebhookPrepend(h)
        \/ WebhookTruncate(h)
        \/ WebhookUnlock(h)
        \/ WebhookRespond(h)
        \/ GetRLock(h)
        \/ GetEncode(h)
        \/ GetWrite(h)
        \/ GetRUnlock(h)
        \/ ClearCheckMethod(h)
        \/ ClearLock(h)
        \/ ClearLockEnter(h)
        \/ ClearAssign(h)
        \/ ClearUnlock(h)
        \/ ClearRespond(h)
        \/ Return(h)

Spec == Init /\ [][Next]_vars

TypeOK ==
    /\ nextID \in 1..(MaxInserts + 1)
    /\ Len(requests) <= CAP + 1
    /\ mu.writer \in Handlers \cup {NoHandler}
    /\ mu.readers \subseteq Handlers
    /\ mu.rwait \subseteq Handlers

\* ------------------------------------------------------------- properties
\* No Insert or Clear is inside its critical section.
Quiescent == \A h \in Handlers : ~InWriterCS(h)

\* No webhook request is between its arrival and its Unlock.
NoInsertInFlight ==
    \A h \in Handlers : pc[h] \notin WebhookPending \cup WebhookCS

\* The goroutines whose Snapshot is marshalled and being returned.
Snapshotting == {h \in Handlers : pc[h] = "g_write"}

\* The n most recently inserted records, newest first.
NewestFirst(n) ==
    [k \in 1..n |-> inserted[Len(inserted) - k + 1]]

\* C1: with no Clear so far, after N completed Inserts the stored sequence as
\* a Snapshot sees it, and every Snapshot being returned, has length
\* min(N, CAP).
C1_Capacity ==
    ~cleared =>
        /\ Quiescent => Len(requests) = Min(completed, CAP)
        /\ \A h \in Snapshotting : Len(snap[h]) = Min(completed, CAP)

C1_Witness ==
    /\ ~cleared
    /\ completed > CAP
    /\ \E h \in Snapshotting : Len(snap[h]) = CAP

\* C2: once more than CAP Inserts have completed since the last Clear, the
\* store holds exactly the CAP most recently inserted records, newest first,
\* so index 0 has id N and index CAP-1 has id N-CAP+1 after N Inserts; the
\* record just inserted is always kept.
C2_EvictionOrder ==
    Quiescent =>
        /\ sinceClear > CAP =>
            /\ requests = NewestFirst(CAP)
            /\ requests[1].ID = completed
            /\ requests[CAP].ID = completed - CAP + 1
            /\ \A h \in Snapshotting : snap[h] = NewestFirst(CAP)
        /\ sinceClear >= 1 => requests[1] = inserted[Len(inserted)]

C2_Witness ==
    /\ Quiescent
    /\ sinceClear > CAP
    /\ Len(requests) = CAP
    /\ \E h \in Snapshotting : snap[h][1].ID = completed

\* C3: outside a writer's critical section the ids strictly decrease from
\* index 0 upward, and index 0 holds the record of the most recently completed
\* Insert that no Clear has removed.
C3_NewestFirst ==
    Quiescent =>
        /\ \A i, j \in DOMAIN requests : i < j => requests[i].ID > requests[j].ID
        /\ sinceClear >= 1 =>
            /\ requests # << >>
            /\ requests[1] = inserted[completed]

C3_Witness ==
    /\ Quiescent
    /\ cleared
    /\ sinceClear = CAP
    /\ Len(requests) = CAP
    /\ requests[1].ID > requests[CAP].ID

\* C4: the ids given out strictly increase in the order of the critical
\* sections, so no id is given twice, also across a Clear or an eviction.
C4_IdMonotonic ==
    \A i, j \in DOMAIN inserted : i < j => inserted[i].ID < inserted[j].ID

C4_Witness ==
    /\ cleared
    /\ Len(inserted) > CAP
    /\ sinceClear = 1
    /\ Quiescent
    /\ requests[1].ID = Len(inserted)

\* C5: M Inserts running concurrently on a fresh store get the ids 1..M, all
\* distinct, and once all have completed the sequence holds the min(M, CAP)
\* records of highest id, each once.
C5_ConcurrentInserts ==
    /\ {inserted[k].ID : k \in DOMAIN inserted} = 1..Len(inserted)
    /\ \A i, j \in DOMAIN inserted : i # j => inserted[i].ID # inserted[j].ID
    /\ (~cleared /\ Quiescent /\ NoInsertInFlight) =>
        /\ Len(inserted) = completed
        /\ Len(requests) = Min(completed, CAP)
        /\ requests = NewestFirst(Min(completed, CAP))
        /\ {requests[k].ID : k \in DOMAIN requests}
             = (completed - Min(completed, CAP) + 1)..completed

\* Three Inserts overlapped: the first to lock was the last to take its
\* timestamp, and the log holds the two of highest id.
C5_Witness ==
    /\ ~cleared
    /\ Quiescent
    /\ NoInsertInFlight
    /\ completed = 3
    /\ inserted[1].Timestamp = 3
    /\ Len(requests) = CAP

\* C6: every Snapshot being returned equals the stored sequence as the last
\* writer left it, a value it had between two writer critical sections; it
\* has at most CAP records and no id twice, so it never shows a prepended
\* record that truncation has not yet followed.
C6_SnapshotConsistency ==
    \A h \in Snapshotting :
        /\ snap[h] = committed
        /\ Len(snap[h]) <= CAP
        /\ \A i, j \in DOMAIN snap[h] : i # j => snap[h][i].ID # snap[h][j].ID

\* A Snapshot of a full log is being returned while an Insert waits in Lock
\* behind it.
C6_Witness ==
    \E h \in Snapshotting :
        /\ Len(snap[h]) = CAP
        /\ \E g \in Handlers : pc[g] = "w_drain"

\* C7: after a completed Clear with no Insert since, the sequence is empty and
\* so is every Snapshot; and a Clear run right after a Clear changes neither
\* the sequence nor the id counter.
C7_ClearIdempotent ==
    /\ [](cleared /\ sinceClear = 0 /\ Quiescent =>
            /\ requests = << >>
            /\ \A h \in Snapshotting : snap[h] = << >>)
    /\ [][\A h \in Handlers :
            (cleared /\ sinceClear = 0
               /\ pc[h] = "c_assign" /\ pc'[h] = "c_unlock") =>
                 (requests' = requests /\ nextID' = nextID)]_vars

\* A second Clear in a row has emptied the sequence again.
C7_Witness ==
    /\ cleared
    /\ sinceClear = 0
    /\ completed >= 1
    /\ requests = << >>
    /\ \E h \in Handlers : pc[h] = "c_unlock"

ClearSteps == {"c_check", "c_lock", "c_drain", "c_assign", "c_unlock", "c_respond"}

\* The largest id given out before the latest one.
MaxIDBefore ==
    LET prev == {inserted[k].ID : k \in 1..(Len(inserted) - 1)} \cup {0}
    IN  CHOOSE m \in prev : \A x \in prev : x <= m

\* C8: no step of the clear handler changes the id counter, and the first
\* Insert after a Clear gets the id one greater than the largest id given out
\* before it.
C8_ClearKeepsCounter ==
    /\ [][\A h \in Handlers :
            (pc[h] \in ClearSteps /\ pc'[h] # pc[h]) => nextID' = nextID]_vars
    /\ [](\A h \in Handlers :
            (pc[h] = "w_inc" /\ cleared /\ sinceClear = 0) =>
                info[h].ID = MaxIDBefore + 1)

\* Insert twice, Clear, Insert: the id is 3.
C8_Witness ==
    \E h \in Handlers :
        /\ pc[h] = "w_inc"
        /\ cleared
        /\ sinceClear = 0
        /\ requests = << >>
        /\ info[h].ID = 3

\* The Inserts past nextID++ (main.go:78) and not yet past Unlock (main.go:85).
Incremented ==
    {h \in Handlers : pc[h] \in {"w_prepend", "w_trunc", "w_unlock"}}

\* C9 as stated: in every reachable state the counter is 1 plus the number of
\* Inserts whose critical section has completed.
C9_Original == nextID = 1 + completed

\* C9 as amended: the counter is 1 plus the number of Inserts that have
\* completed their critical section plus the number of those between nextID++
\* and Unlock (none outside a critical section, one inside); and the k-th
\* Insert to run its critical section is assigned id k.
C9_CounterAdvance ==
    /\ nextID = 1 + completed + Cardinality(Incremented)
    /\ Cardinality(Incremented) <= 1
    /\ Incremented = {} => nextID = 1 + completed
    /\ \A k \in DOMAIN inserted : inserted[k].ID = k

\* Three Inserts have completed, a Clear has removed some of their records.
C9_Witness ==
    /\ Quiescent
    /\ cleared
    /\ completed = 3
    /\ Len(requests) = 1
    /\ nextID = 4

\* C10: no handler holds mu, as reader or writer, while it reads from or
\* writes to its connection.
C10_NoIOUnderLock == \A h \in Handlers : ~(HoldsLock(h) /\ DoingIO(h))

\* The goroutines between RLock and RUnlock in getRequestsHandler.
InReadSection == {h \in Handlers : pc[h] \in {"g_encode", "g_write", "g_runlock"}}

\* C11: at most one handler is inside an Insert or Clear critical section,
\* and no Snapshot is inside its read section while one is; Snapshots may
\* share the read section.
C11_LockDiscipline ==
    /\ Cardinality({h \in Handlers : InWriterCS(h)}) <= 1
    /\ (\E h \in Handlers : InWriterCS(h)) => InReadSection = {}
    /\ \A h \in Handlers : InWriterCS(h) => mu.writer = h
    /\ InReadSection = mu.readers

\* Two Snapshots read at the same time while an Insert waits behind them.
C11_Witness ==
    /\ Cardinality(InReadSection) = 2
    /\ \E h \in InReadSection : pc[h] = "g_encode"
    /\ \E g \in Handlers : pc[g] = "w_drain"

\* The records a sequence holds.
Range(s) == {s[k] : k \in DOMAIN s}

\* The records of the insert log that were in the sequence and are no longer:
\* those it does not hold and that no Insert is about to prepend.
HasLeft ==
    {r \in Range(inserted) :
        /\ r \notin Range(requests)
        /\ \A h \in Handlers : pc[h] \in {"w_inc", "w_prepend"} => info[h] # r}

\* C12: a record in the sequence is the record as it was inserted, and stays
\* identical while it is present; a record leaves only as the last one cut by
\* truncation or through Clear; a record that has left does not come back.
C12_RecordImmutable ==
    /\ [](\A r \in Range(requests) :
            r.ID \in DOMAIN inserted /\ inserted[r.ID] = r)
    /\ [][\A i \in DOMAIN requests : \A j \in DOMAIN requests' :
            requests[i].ID = requests'[j].ID => requests[i] = requests'[j]]_vars
    /\ [][\A r \in Range(requests) \ Range(requests') :
            \/ \E h \in Handlers :
                 /\ pc[h] = "w_trunc" /\ pc'[h] = "w_unlock"
                 /\ Len(requests) > CAP
                 /\ r = requests[Len(requests)]
            \/ \E h \in Handlers : pc[h] = "c_assign" /\ pc'[h] = "c_unlock"]_vars
    /\ [][\A r \in HasLeft : r \notin Range(requests')]_vars

\* Truncation has just cut the oldest record; the one next to it is kept as
\* it was inserted.
C12_Witness ==
    /\ \E h \in Handlers : pc[h] = "w_unlock"
    /\ Len(inserted) = CAP + 1
    /\ Len(requests) = CAP
    /\ requests[CAP] = inserted[2]
    /\ inserted[1] \in HasLeft

\* The place of a record in the insert log, the order of the critical
\* sections.
LogIndex(r) == CHOOSE k \in DOMAIN inserted : inserted[k] = r

\* C13: a record's timestamp is taken before its handler acquires the lock and
\* its id inside the critical section; of two stored records the one whose
\* critical section ran later has the greater id and the lower index,
\* whatever their timestamps.
C13_LockOrder ==
    /\ \A h \in Handlers :
        pc[h] \in {"w_lock", "w_drain"} =>
            (info[h].Timestamp >= 1 /\ info[h].ID = 0)
    /\ Quiescent =>
        \A i, j \in DOMAIN requests :
            i < j =>
                /\ requests[i] \in Range(inserted)
                /\ requests[j] \in Range(inserted)
                /\ LogIndex(requests[i]) > LogIndex(requests[j])
                /\ requests[i].ID > requests[j].ID

\* The record of greater id, at index 0, has the earlier timestamp.
C13_Witness ==
    /\ Quiescent
    /\ Len(requests) = CAP
    /\ requests[1].ID > requests[2].ID
    /\ requests[1].Timestamp < requests[2].Timestamp

\* The goroutines serving a request to the clear endpoint that is not a POST.
ClearNotPost ==
    {h \in Handlers : req[h].URL = "/api/clear" /\ req[h].Method # "POST"}

\* C14: a request to the clear endpoint that is not a POST is answered 405 and
\* returns at once, changing neither the sequence nor the id counter; it is
\* not recorded; and the sequence is emptied only by a POST to the clear
\* endpoint.
C14_ClearMethod ==
    /\ [](\A h \in ClearNotPost :
            /\ pc[h] \in {"c_check", "returned"}
            /\ pc[h] = "returned" => resp[h] = StatusMethodNotAllowed)
    /\ [](\A r \in Range(inserted) \cup Range(requests) : r.URL # "/api/clear")
    /\ [][\A h \in ClearNotPost :
            pc'[h] # pc[h] =>
                /\ requests' = requests
                /\ nextID' = nextID
                /\ mu' = mu
                /\ inserted' = inserted]_vars
    /\ [][(requests # << >> /\ requests' = << >>) =>
            \E h \in Handlers :
                /\ pc[h] = "c_assign"
                /\ req[h] = [URL |-> "/api/clear", Method |-> "POST"]]_vars

\* A GET to the clear endpoint has been answered 405; the history is there.
C14_Witness ==
    \E h \in ClearNotPost :
        /\ pc[h] = "returned"
        /\ resp[h] = StatusMethodNotAllowed
        /\ Len(requests) = CAP
        /\ Quiescent

\* The number of entries of the insert log that are the record r.
Occurrences(r) == Cardinality({k \in DOMAIN inserted : inserted[k] = r})

\* C15: a failed body read is answered 500 and the handler returns without
\* taking the lock: the sequence, the id counter and the insert log are
\* unchanged; a webhook request whose body was read and whose handler has
\* left the critical section was inserted exactly once.
C15_FailedRead ==
    /\ [](\A h \in Handlers :
            resp[h] = StatusInternalServerError =>
                (pc[h] = "returned" /\ info[h] = NoInfo))
    /\ [][\A h \in Handlers :
            (pc[h] = "w_read" /\ pc'[h] = "returned") =>
                /\ resp'[h] = StatusInternalServerError
                /\ requests' = requests
                /\ nextID' = nextID
                /\ mu' = mu
                /\ inserted' = inserted]_vars
    /\ [][\A h \in Handlers :
            (pc[h] = "w_read" /\ pc'[h] # "returned" /\ pc'[h] # pc[h]) =>
                (pc'[h] = "w_lock" /\ resp'[h] = StatusNone)]_vars
    /\ [](\A h \in Handlers :
            (pc[h] = "w_respond" \/ (pc[h] = "returned" /\ info[h] # NoInfo)) =>
                /\ info[h].ID >= 1
                /\ Occurrences(info[h]) = 1)
    /\ [](Quiescent /\ NoInsertInFlight => Len(inserted) = completed)

\* After one Insert a body read has failed: the record is there, the counter
\* is 2.
C15_Witness ==
    \E h \in Handlers :
        /\ pc[h] = "returned"
        /\ resp[h] = StatusInternalServerError
        /\ Len(requests) = 1
        /\ nextID = 2
        /\ Quiescent

GetSteps == {"g_rlock", "g_rwait", "g_encode", "g_write", "g_runlock"}

\* C16: no step of the list handler changes the sequence or the id counter,
\* and what it marshals is the sequence as it stands; a request to the list
\* endpoint is not recorded; the sequence changes only inside a writer's
\* critical section, so Snapshots with none in between are equal.
C16_SnapshotReadOnly ==
    /\ [][\A h \in Handlers :
            (pc[h] \in GetSteps /\ pc'[h] # pc[h]) =>
                /\ requests' = requests
                /\ nextID' = nextID
                /\ inserted' = inserted
                /\ (pc[h] = "g_encode" => snap'[h] = requests)]_vars
    /\ [](\A r \in Range(inserted) \cup Range(requests) :
            r.URL # "/api/requests")
    /\ [](\A h \in Handlers :
            req[h].URL = "/api/requests" => pc[h] \in GetSteps \cup {"returned"})
    /\ [][requests' # requests =>
            \E h \in Handlers : pc[h] \in {"w_prepend", "w_trunc", "c_assign"}]_vars
    /\ [](\A h, g \in Snapshotting : snap[h] = snap[g])

\* Two Snapshots of a full log are being returned together.
C16_Witness ==
    \E h, g \in Snapshotting :
        /\ h # g
        /\ Len(snap[h]) = CAP
        /\ snap[g] = snap[h]
        /\ snap[h] = requests

\* C18: outside a writer's critical section the ids in the sequence are
\* consecutive, requests[k].id = requests[0].id - k, and a non-empty sequence
\* has requests[0].id = nextID - 1; the sequence is empty exactly when no
\* Insert has completed since the last Clear or since the start.
C18_ContiguousIds ==
    Quiescent =>
        /\ \A k \in DOMAIN requests : requests[k].ID = requests[1].ID - (k - 1)
        /\ requests # << >> => requests[1].ID = nextID - 1
        /\ requests = << >> <=> sinceClear = 0

\* After a Clear the sequence has filled again with the ids nextID-CAP ..
\* nextID-1.
C18_Witness ==
    /\ Quiescent
    /\ cleared
    /\ Len(requests) = CAP
    /\ requests[1].ID = nextID - 1
    /\ requests[CAP].ID = nextID - CAP
    /\ nextID = MaxInserts + 1

\* ------------------------------------------------------------- progress
\* Number of webhook requests admitted over a run of the fair specification.
LiveInserts == 1

\* Every step of handler h but the arrival of a new request.
Step(h) ==
    \/ WebhookReadRequest(h)
    \/ WebhookLock(h)
    \/ WebhookLockEnter(h)
    \/ WebhookAssignID(h)
    \/ WebhookIncrement(h)
    \/ WebhookPrepend(h)
    \/ WebhookTruncate(h)
    \/ WebhookUnlock(h)
    \/ WebhookRespond(h)
    \/ GetRLock(h)
    \/ GetEncode(h)
    \/ GetWrite(h)
    \/ GetRUnlock(h)
    \/ ClearCheckMethod(h)
    \/ ClearLock(h)
    \/ ClearLockEnter(h)
    \/ ClearAssign(h)
    \/ ClearUnlock(h)
    \/ ClearRespond(h)
    \/ Return(h)

\* main.go:36-42: the arrival of a request, with the smaller bound on webhooks.
LiveServeMux(h) ==
    /\ ServeMux(h)
    /\ Route(req'[h].URL) = "w_read" => Admitted < LiveInserts

LiveNext == \E h \in Handlers : LiveServeMux(h) \/ Step(h)

\* The Go scheduler runs every runnable goroutine, a response write ends, and
\* sync.Mutex hands rw.w to a writer that keeps waiting for it (starvation
\* mode), so a writer is not overtaken for ever. Requests arrive or not.
FairSpec ==
    /\ Init
    /\ [][LiveNext]_vars
    /\ \A h \in Handlers :
        /\ WF_vars(Step(h))
        /\ SF_vars(WebhookLock(h))
        /\ SF_vars(ClearLock(h))

\* C17: while a handler is running some handler can take a step, a handler
\* that is not running holds no lock, and with fair scheduling every handler
\* that has started returns, so it has got and released the lock it asked for.
C17_Progress ==
    /\ []((\E h \in Handlers : pc[h] # "idle") =>
            (\E h \in Handlers : ENABLED Step(h)))
    /\ [](\A h \in Handlers :
            pc[h] \in {"idle", "returned"} =>
                (~HoldsLock(h) /\ mu.writer # h /\ h \notin mu.rwait))
    /\ \A h \in Handlers : (pc[h] # "idle") ~> (pc[h] = "idle")

\* An Insert waits for rw.w behind a Clear that waits for a Snapshot to end
\* its write.
C17_Witness ==
    /\ \E h \in Handlers : pc[h] = "w_lock"
    /\ \E g \in Handlers : pc[g] = "c_drain"
    /\ \E r \in Handlers : pc[r] = "g_write"

====
